---- MODULE Spec2Model ----
(***************************************************************************)
(* Model of src/app/page.tsx: the seeded generator RNG, the layer          *)
(* renderers, renderArt, handleGenerate and the React state of Page.       *)
(*                                                                         *)
(* Numbers.  TLC integers are 32-bit signed, so a 32-bit word of the       *)
(* program is the pair <<hi, lo>> of its 16-bit halves (value              *)
(* hi * 2^16 + lo, the unsigned bit pattern); the bit operations of        *)
(* JavaScript (^, |, <<, >>>, Math.imul) act on that bit pattern.          *)
(* A double is kept exactly where the program stores one (RNG.seed): its   *)
(* integer part and its fraction in units of 2^-32, rounded to 53          *)
(* significant bits after every addition as IEEE 754 does.                 *)
(***************************************************************************)
EXTENDS Integers, Sequences, FiniteSets, TLC

\* 2^16, the radix of the halves of a word
W16 == 2 ^ 16

Pow2(n) == 2 ^ n

\* Op(v) with v evaluated once, before Op is entered: the statement
\* "const x = v; ...Op(x)".  The bound variable of a set constructor holds a
\* computed value, where a LET or an operator argument may be computed
\* again at every use.
Bind(v, Op(_)) == CHOOSE r \in {Op(x) : x \in {v}} : TRUE

RECURSIVE Log2(_)
\* floor(log2 n) for n >= 1
Log2(n) == IF n < 2 THEN 0 ELSE 1 + Log2(n \div 2)

RECURSIVE BitXor(_, _)
BitXor(a, b) ==
    IF a = 0 THEN b
    ELSE IF b = 0 THEN a
    ELSE ((a + b) % 2) + 2 * BitXor(a \div 2, b \div 2)

RECURSIVE BitOr(_, _)
BitOr(a, b) ==
    IF a = 0 THEN b
    ELSE IF b = 0 THEN a
    ELSE (IF a % 2 = 1 \/ b % 2 = 1 THEN 1 ELSE 0) + 2 * BitOr(a \div 2, b \div 2)

\* ---- 32-bit words as <<hi, lo>> --------------------------------------

\* a ^ b
XorW(a, b) == <<BitXor(a[1], b[1]), BitXor(a[2], b[2])>>

\* a | b
OrW(a, b) == <<BitOr(a[1], b[1]), BitOr(a[2], b[2])>>

\* (a + b) mod 2^32
AddW(a, b) ==
    LET lo == a[2] + b[2]
    IN  <<(a[1] + b[1] + (lo \div W16)) % W16, lo % W16>>

\* a >>> k, 0 < k < 32
ShrW(a, k) ==
    IF k < 16
    THEN <<a[1] \div Pow2(k), (a[2] \div Pow2(k)) + (a[1] % Pow2(k)) * Pow2(16 - k)>>
    ELSE <<0, a[1] \div Pow2(k - 16)>>

\* a << k, 0 < k < 32
ShlW(a, k) ==
    IF k < 16
    THEN <<(a[1] * Pow2(k) + (a[2] \div Pow2(16 - k))) % W16, (a[2] * Pow2(k)) % W16>>
    ELSE <<(a[2] * Pow2(k - 16)) % W16, 0>>

\* the full product of two 16-bit numbers, as a word
Mul16(x, y) ==
    LET p0 == (x % 256) * y
        p1 == (x \div 256) * y
        low == p0 + (p1 % 256) * 256
    IN  <<((low \div W16) + (p1 \div 256)) % W16, low % W16>>

\* Math.imul(a, b): the low 32 bits of the product
imul(a, b) ==
    LET p == Mul16(a[2], b[2])
    IN  <<(p[1] + Mul16(a[1], b[2])[2] + Mul16(a[2], b[1])[2]) % W16, p[2]>>

\* ---- class RNG ---------------------------------------------------------

\* 1779033703, the initial accumulator of RNG.hash
HashInit == <<27145, 58983>>
\* 3432918353, the multiplier of RNG.hash
HashMul == <<52382, 11601>>
\* 0x6d2b79f5, the increment of RNG.next
Increment == <<27947, 31221>>

\* one iteration of the for loop of RNG.hash on the character code c
hashStep(h, c) ==
    Bind(imul(XorW(h, <<0, c>>), HashMul),
         LAMBDA h1 : OrW(ShlW(h1, 13), ShrW(h1, 19)))

RECURSIVE hashLoop(_, _, _, _)
\* the for loop of RNG.hash over input[lo..hi] (1-based) from accumulator
\* h, left to right.  The range is halved so that the evaluation stays
\* shallow on long strings.
hashLoop(input, lo, hi, h) ==
    IF lo > hi THEN h
    ELSE IF lo = hi THEN hashStep(h, input[lo])
    ELSE Bind(hashLoop(input, lo, (lo + hi) \div 2, h),
              LAMBDA m : hashLoop(input, ((lo + hi) \div 2) + 1, hi, m))

\* the unsigned 32-bit accumulator h >>> 0 at the end of RNG.hash
hashAcc(input) == Bind(input, LAMBDA str : hashLoop(str, 1, Len(str), HashInit))

\* A double with a non-negative value: int is the integer part as
\* <<high, low16>> (value high * 2^16 + low16, high unbounded), frac the
\* fraction as a word in units of 2^-32.
Double(int, frac) == [int |-> int, frac |-> frac]

\* RNG.hash: (h >>> 0) / 4294967296, exact in a double
hash(input) == Double(<<0, 0>>, hashAcc(input))

\* bit i (0..31) of a word
BitAt(w, i) == IF i < 16 THEN (w[2] \div Pow2(i)) % 2 ELSE (w[1] \div Pow2(i - 16)) % 2

\* whether the low n (0..32) bits of a word are not all zero
LowNonZero(w, n) ==
    IF n <= 16 THEN w[2] % Pow2(n) # 0
    ELSE w[2] # 0 \/ w[1] % Pow2(n - 16) # 0

\* a word with its low q (0..32) bits cleared
ClearLow(w, q) ==
    IF q <= 16 THEN <<w[1], w[2] - (w[2] % Pow2(q))>>
    ELSE <<w[1] - (w[1] % Pow2(q - 16)), 0>>

\* Round the fraction of a double to the nearest multiple of 2^q in units
\* of 2^-32 (q in 0..32 low bits dropped), ties to even; intLsb is the low
\* bit of the integer part, the last kept bit when q = 32.  carry = 1 when
\* the fraction rounds up to 1.
RoundFrac(frac, q, intLsb) ==
    LET guard == IF q = 0 THEN 0 ELSE BitAt(frac, q - 1)
        sticky == IF q = 0 THEN FALSE ELSE LowNonZero(frac, q - 1)
        lsb == IF q = 32 THEN intLsb ELSE BitAt(frac, q)
        up == guard = 1 /\ (sticky \/ lsb = 1)
        kept == ClearLow(frac, q)
        step == IF q = 32 THEN <<0, 0>>
                ELSE IF q < 16 THEN <<0, Pow2(q)>> ELSE <<Pow2(q - 16), 0>>
        over == q = 32 \/ (kept[1] + step[1] + ((kept[2] + step[2]) \div W16)) >= W16
    IN  IF ~up THEN [frac |-> kept, carry |-> 0]
        ELSE IF over THEN [frac |-> <<0, 0>>, carry |-> 1]
        ELSE [frac |-> AddW(kept, step), carry |-> 0]

\* The number of low fraction bits (of 32) a double with integer part
\* int >= 2^16 cannot hold: with e = floor(log2 int) it keeps 52 - e bits
\* of the fraction.
DroppedBits(int) ==
    LET q == (16 + Log2(int[1])) - 20
    IN  IF q < 0 THEN 0 ELSE IF q > 32 THEN 32 ELSE q

\* int + n for a small n >= 0
IntPlus(int, n) ==
    LET lo == int[2] + n
    IN  <<int[1] + (lo \div W16), lo % W16>>

\* the double nearest to int + frac / 2^32 (int >= 2^16), ties to even
RoundDouble(int, frac) ==
    Bind(DroppedBits(int), LAMBDA q :
    Bind(RoundFrac(frac, q, int[2] % 2), LAMBDA r :
         Double(IntPlus(int, r.carry), r.frac)))

\* this.seed += 0x6d2b79f5: a double addition, no wraparound
SeedAdd(seed) ==
    Bind(<<seed.int[1] + Increment[1] + ((seed.int[2] + Increment[2]) \div W16),
           (seed.int[2] + Increment[2]) % W16>>,
         LAMBDA int : RoundDouble(int, seed.frac))

\* ToInt32 / ToUint32 of a double, as the bit operations apply it: the
\* integer part modulo 2^32
ToInt32(seed) == <<seed.int[1] % W16, seed.int[2]>>

\* the three mixing lines of RNG.next on the 32-bit value t; the numerator
\* of the returned fraction, (t ^ (t >>> 14)) >>> 0
Mix(t) ==
    Bind(imul(XorW(t, ShrW(t, 15)), OrW(t, <<0, 1>>)), LAMBDA t1 :
    Bind(XorW(t1, AddW(t1, imul(XorW(t1, ShrW(t1, 7)), OrW(t1, <<0, 61>>)))), LAMBDA t2 :
         XorW(t2, ShrW(t2, 14))))

\* RNG.next: the new stored seed and the returned value as a word v
\* (the call returns v / 4294967296)
next(seed) ==
    Bind(SeedAdd(seed), LAMBDA s :
    Bind(ToInt32(s), LAMBDA t : [seed |-> s, value |-> Mix(t)]))

\* rng.range(min, max) under Math.floor, for integers min < max:
\* floor(min + next() * (max - min)) with next() = value / 2^32; the
\* product and the sum are exact in a double (35 and 37 significant bits)
rangeFloor(min, max, value) ==
    min + (((max - min) * value[1] + (((max - min) * value[2]) \div W16)) \div W16)

RECURSIVE RoundChain(_, _, _, _)
\* The fraction after the roundings at q + 1, ..., qEnd dropped bits, one
\* for every power of two the growing seed passes.
RoundChain(frac, q, qEnd, intLsb) ==
    IF q >= qEnd THEN [frac |-> frac, carry |-> 0]
    ELSE Bind(RoundFrac(frac, q + 1, intLsb), LAMBDA r :
              IF r.carry = 1 THEN r ELSE RoundChain(r.frac, q + 1, qEnd, intLsb))

\* k calls of next() whose values are not inspected here, as far as the
\* stored seed goes: this.seed += 0x6d2b79f5, k times.  After the first
\* addition the integer part is at least 0x6d2b79f5, so an addition is
\* exact unless the sum passes a power of two, where one more fraction bit
\* is rounded away.
Advance(seed, k) ==
    IF k = 0 THEN seed
    ELSE Bind(SeedAdd(seed), LAMBDA s1 :
         Bind(<<s1.int[1] + (k - 1) * Increment[1]
                    + ((s1.int[2] + (k - 1) * Increment[2]) \div W16),
                (s1.int[2] + (k - 1) * Increment[2]) % W16>>, LAMBDA int :
         Bind(RoundChain(s1.frac, DroppedBits(s1.int), DroppedBits(int), int[2] % 2),
              LAMBDA r : Double(IntPlus(int, r.carry), r.frac))))

\* ---- module-level tables ----------------------------------------------

palettes ==
    << [name |-> "Aurora", colors |-> <<"#13f1fc", "#0470dc", "#1f1a3a">>],
       [name |-> "Solar Burst", colors |-> <<"#ffe29f", "#ffa99f", "#ff719a">>],
       [name |-> "Jade Circuit", colors |-> <<"#00f5a0", "#00d9f5", "#0067f5">>],
       [name |-> "Neon Noir", colors |-> <<"#7f5af0", "#2cb1bc", "#16161a">>],
       [name |-> "Sunset Bloom", colors |-> <<"#ff9a8b", "#ff6a88", "#ff99ac">>],
       [name |-> "Digital Forest", colors |-> <<"#a0ff9d", "#16c79a", "#132a13">>] >>

styles ==
    << "Abstract Flow", "Polygon Nebula", "Fractal Bloom", "Chromatic Storm",
       "Synthwave Horizon", "Liquid Aurora" >>

resolutions ==
    << [label |-> "Square 1024x1024", width |-> 1024, height |-> 1024],
       [label |-> "Landscape 1280x720", width |-> 1280, height |-> 720],
       [label |-> "Portrait 720x1280", width |-> 720, height |-> 1280] >>

Range(seq) == {seq[i] : i \in DOMAIN seq}
StyleNames == Range(styles)
PaletteNames == {palettes[i].name : i \in DOMAIN palettes}

\* the prompt useState starts with, and the one the Surprise Me button sets
InitialPrompt == "dreamscape of floating islands with neon rivers"
SurprisePrompt == "bioluminescent coral reefs under moonlit skies"

\* texts typed into the prompt textarea
TypedPrompts == {"", "neon koi"}

\* the UTF-16 code units of the strings the model uses (charCodeAt)
charCodes(s) ==
    CASE s = "dreamscape of floating islands with neon rivers" ->
           <<100, 114, 101, 97, 109, 115, 99, 97, 112, 101, 32, 111, 102,
             32, 102, 108, 111, 97, 116, 105, 110, 103, 32, 105, 115, 108,
             97, 110, 100, 115, 32, 119, 105, 116, 104, 32, 110, 101, 111,
             110, 32, 114, 105, 118, 101, 114, 115>>
      [] s = "bioluminescent coral reefs under moonlit skies" ->
           <<98, 105, 111, 108, 117, 109, 105, 110, 101, 115, 99, 101, 110,
             116, 32, 99, 111, 114, 97, 108, 32, 114, 101, 101, 102, 115,
             32, 117, 110, 100, 101, 114, 32, 109, 111, 111, 110, 108, 105,
             116, 32, 115, 107, 105, 101, 115>>
      [] s = "" ->
           <<>>
      [] s = "neon koi" ->
           <<110, 101, 111, 110, 32, 107, 111, 105>>
      [] s = "Abstract Flow" ->
           <<65, 98, 115, 116, 114, 97, 99, 116, 32, 70, 108, 111, 119>>
      [] s = "Polygon Nebula" ->
           <<80, 111, 108, 121, 103, 111, 110, 32, 78, 101, 98, 117, 108, 97>>
      [] s = "Fractal Bloom" ->
           <<70, 114, 97, 99, 116, 97, 108, 32, 66, 108, 111, 111, 109>>
      [] s = "Chromatic Storm" ->
           <<67, 104, 114, 111, 109, 97, 116, 105, 99, 32, 83, 116, 111,
             114, 109>>
      [] s = "Synthwave Horizon" ->
           <<83, 121, 110, 116, 104, 119, 97, 118, 101, 32, 72, 111, 114,
             105, 122, 111, 110>>
      [] s = "Liquid Aurora" ->
           <<76, 105, 113, 117, 105, 100, 32, 65, 117, 114, 111, 114, 97>>
      [] s = "Aurora" ->
           <<65, 117, 114, 111, 114, 97>>
      [] s = "Solar Burst" ->
           <<83, 111, 108, 97, 114, 32, 66, 117, 114, 115, 116>>
      [] s = "Jade Circuit" ->
           <<74, 97, 100, 101, 32, 67, 105, 114, 99, 117, 105, 116>>
      [] s = "Neon Noir" ->
           <<78, 101, 111, 110, 32, 78, 111, 105, 114>>
      [] s = "Sunset Bloom" ->
           <<83, 117, 110, 115, 101, 116, 32, 66, 108, 111, 111, 109>>
      [] s = "Digital Forest" ->
           <<68, 105, 103, 105, 116, 97, 108, 32, 70, 111, 114, 101, 115,
             116>>

RECURSIVE digits(_)
\* the decimal digits of n >= 0 as character codes
digits(n) == IF n < 10 THEN <<48 + n>> ELSE Append(digits(n \div 10), 48 + (n % 10))

\* A time in milliseconds is [high, low] with value high * 10^6 + low,
\* low < 10^6.  The template literal turns Date.now() into its decimal
\* digits.
numberToString(t) ==
    IF t.high = 0 THEN digits(t.low)
    ELSE digits(t.high) \o [i \in 1..6 |-> 48 + ((t.low \div (10 ^ (6 - i))) % 10)]

\* `${prompt}-${selectedStyle}-${selectedPalette}-${Date.now()}`
seedBase(p, style, pal, t) ==
    charCodes(p) \o <<45>> \o charCodes(style) \o <<45>> \o charCodes(pal)
        \o <<45>> \o numberToString(t)

\* palettes.find((p) => p.name === selectedPalette) ?? palettes[0]
paletteOf(name) ==
    IF \E i \in DOMAIN palettes : palettes[i].name = name
    THEN palettes[CHOOSE i \in DOMAIN palettes :
                      /\ palettes[i].name = name
                      /\ \A j \in 1..(i - 1) : palettes[j].name # name]
    ELSE palettes[1]

\* ---- the canvas and the layer renderers -------------------------------

(***************************************************************************)
(* The canvas is [width, height, composite, ops]: its size, the            *)
(* globalCompositeOperation of its 2D context and the drawing operations   *)
(* applied since it was last cleared, in order.  An operation records      *)
(* what determines its pixels: the layer, the colours, the dimensions it   *)
(* was given, the compositing mode in effect, and the stretch of the       *)
(* generator's stream it consumed: the number of next() calls made on the  *)
(* instance before it (from), the number it made (calls), and the 32-bit   *)
(* value t of its first and of its last call (the returned values are a    *)
(* function of t).                                                         *)
(***************************************************************************)

\* const rings = 8 (drawBackdrop)
rings == 8
\* const layers = 12 (drawPolygons)
layers == 12
\* const blobs = 60 (drawFluid)
blobs == 60
\* const particleCount = 800 (drawParticles)
particleCount == 800

\* A drawing pass in progress: the canvas, the RNG instance (its stored
\* seed) and the number of next() calls made on it so far.
Pass(surface, seed, calls) == [surface |-> surface, seed |-> seed, calls |-> calls]

\* the operation a renderer leaves on the canvas after k > 0 calls of
\* next() that took the seed from pass.seed to seedAfter
DrawOp(layer, colors, mode, pass, width, height, k, seedAfter) ==
    [layer |-> layer, colors |-> colors, composite |-> mode,
     width |-> width, height |-> height,
     from |-> pass.calls, calls |-> k,
     first |-> <<ToInt32(SeedAdd(pass.seed))>>, last |-> <<ToInt32(seedAfter)>>]

\* the pass after an operation was drawn
Drawn(pass, drawOp, seedAfter) ==
    Bind(drawOp, LAMBDA op :
         Pass([pass.surface EXCEPT !.ops = Append(@, op)], seedAfter,
              pass.calls + op.calls))

\* drawBackdrop: the linear gradient fill, then 8 rings of three
\* rng.range calls (radius, x, y)
drawBackdrop(pass, width, height, colors) ==
    Bind(Advance(pass.seed, rings * 3), LAMBDA after :
         Drawn(pass,
               DrawOp("Backdrop", colors, pass.surface.composite, pass, width, height,
                      rings * 3, after),
               after))

\* one iteration of the outer loop of drawPolygons: the vertex count (one
\* call), four calls per vertex (angle, radius, x, y) and the call for the
\* alpha of the fill; the seed afterwards and the number of calls made
polygon(seed) ==
    Bind(next(seed), LAMBDA r :
    Bind(rangeFloor(3, 8, r.value), LAMBDA points :
         [seed |-> Advance(r.seed, 4 * points + 1), calls |-> 4 * points + 2]))

RECURSIVE polygonLoop(_, _, _)
\* the iterations lo..hi - 1 of the outer loop of drawPolygons from the
\* given seed, in order (the range is halved to keep the evaluation
\* shallow); [seed, calls] at the end
polygonLoop(seed, lo, hi) ==
    IF hi - lo = 1 THEN polygon(seed)
    ELSE Bind(polygonLoop(seed, lo, (lo + hi) \div 2), LAMBDA l :
         Bind(polygonLoop(l.seed, (lo + hi) \div 2, hi), LAMBDA r :
              [seed |-> r.seed, calls |-> l.calls + r.calls]))

\* drawPolygons: 12 polygons drawn under "lighter"; the mode is
\* "source-over" when it returns
drawPolygons(pass, width, height, colors) ==
    Bind(polygonLoop(pass.seed, 0, layers), LAMBDA end :
         [Drawn(pass,
                DrawOp("Polygon", colors, "lighter", pass, width, height,
                       end.calls, end.seed),
                end.seed)
            EXCEPT !.surface.composite = "source-over"])

\* drawFluid: 60 blobs of three rng.range calls (x, y, radius)
drawFluid(pass, width, height, colors) ==
    Bind(Advance(pass.seed, blobs * 3), LAMBDA after :
         Drawn(pass,
               DrawOp("Fluid", colors, pass.surface.composite, pass, width, height,
                      blobs * 3, after),
               after))

\* drawParticles: 800 squares of three rng.range calls (x, y, size),
\* filled with "#ffffff11" whatever the palette
drawParticles(pass, width, height) ==
    Bind(Advance(pass.seed, particleCount * 3), LAMBDA after :
         Drawn(pass,
               DrawOp("Particle", <<"#ffffff11">>, pass.surface.composite, pass,
                      width, height, particleCount * 3, after),
               after))

\* drawScanlines on the canvas: getImageData of the whole canvas, the rows
\* y < height, putImageData; it takes no rng (the pixel arithmetic is
\* drawScanlines below)
scanlinePass(pass, height) ==
    Drawn(pass,
          [layer |-> "Scanline", colors |-> <<>>, composite |-> pass.surface.composite,
           width |-> pass.surface.width, height |-> height,
           from |-> pass.calls, calls |-> 0, first |-> <<>>, last |-> <<>>],
          pass.seed)

\* a variant of the switch below without the case "Chromatic Storm", which
\* then takes the default branch
styleSwitchNoStorm(style) ==
    CASE style = "Polygon Nebula" -> <<"Polygon", "Particle">>
      [] style = "Fractal Bloom" -> <<"Fluid", "Particle">>
      [] style = "Synthwave Horizon" -> <<"Fluid", "Scanline">>
      [] style = "Liquid Aurora" -> <<"Fluid", "Particle">>
      [] OTHER -> <<"Fluid", "Polygon", "Particle">>

\* the layer calls of one case of the switch in renderArt, in order
styleSwitch(style) ==
    CASE style = "Polygon Nebula" -> <<"Polygon", "Particle">>
      [] style = "Fractal Bloom" -> <<"Fluid", "Particle">>
      [] style = "Chromatic Storm" -> <<"Polygon", "Fluid", "Particle">>
      [] style = "Synthwave Horizon" -> <<"Fluid", "Scanline">>
      [] style = "Liquid Aurora" -> <<"Fluid", "Particle">>
      [] OTHER -> <<"Fluid", "Polygon", "Particle">>

\* a variant of the trailing call below without its test of the style
trailingScanlinesAlways(style) == <<"Scanline">>

\* if (selectedStyle !== "Synthwave Horizon") drawScanlines(ctx, height)
trailingScanlines(style) ==
    IF style # "Synthwave Horizon" THEN <<"Scanline">> ELSE <<>>

\* one layer call
drawLayer(layer, pass, width, height, colors) ==
    CASE layer = "Backdrop" -> drawBackdrop(pass, width, height, colors)
      [] layer = "Polygon" -> drawPolygons(pass, width, height, colors)
      [] layer = "Fluid" -> drawFluid(pass, width, height, colors)
      [] layer = "Particle" -> drawParticles(pass, width, height)
      [] layer = "Scanline" -> scanlinePass(pass, height)

RECURSIVE drawLayers(_, _, _, _, _, _)
\* the calls seq[i..] in order
drawLayers(seq, i, pass, width, height, colors) ==
    IF i > Len(seq) THEN pass
    ELSE Bind(drawLayer(seq[i], pass, width, height, colors),
              LAMBDA p : drawLayers(seq, i + 1, p, width, height, colors))

\* a variant of the resize below that keeps what was drawn and the context
\* state (a surface that is sized once and then reused as it is)
resizeKeep(surface, width, height) ==
    [surface EXCEPT !.width = width, !.height = height]

\* canvas.width = width; canvas.height = height: setting either dimension
\* clears the bitmap and resets the context state
resize(surface, width, height) ==
    [width |-> width, height |-> height, composite |-> "source-over", ops |-> <<>>]

\* canvas.toDataURL("image/png"): the encoded bitmap, its size and content
toDataURL(surface) ==
    [mime |-> "image/png", width |-> surface.width, height |-> surface.height,
     ops |-> surface.ops]

\* the ways canvasRef.current / canvas.getContext("2d") can turn out
Acquire == {"ok", "no-canvas", "no-context"}

(***************************************************************************)
(* renderArt, for the closure view (the prompt, selectedStyle,             *)
(* selectedPalette, selectedResolution and memoized palette of the render  *)
(* that created it), the canvas as it is, Date.now() = t and the outcome   *)
(* of acquiring the canvas.  result is <<>> for null and <<dataUrl>>       *)
(* otherwise; calls is the number of next() calls made.                    *)
(***************************************************************************)
renderArt(view, surface, t, acquire) ==
    IF acquire # "ok"
    THEN [result |-> <<>>, surface |-> surface, calls |-> 0, seedBase |-> <<>>]
    ELSE LET width == view.selectedResolution.width
             height == view.selectedResolution.height
             seq == <<"Backdrop">> \o styleSwitch(view.selectedStyle)
                        \o trailingScanlines(view.selectedStyle)
         IN  Bind(seedBase(view.prompt, view.selectedStyle, view.selectedPalette, t),
                  LAMBDA base :
             Bind(Pass(resize(surface, width, height), hash(base), 0), LAMBDA start :
             Bind(drawLayers(seq, 1, start, width, height, view.palette.colors),
                  LAMBDA end :
                  [result |-> <<toDataURL(end.surface)>>, surface |-> end.surface,
                   calls |-> end.calls, seedBase |-> base])))

\* ---- the state of Page ------------------------------------------------

\* bounds of the exploration
MaxEdits == 1
MaxGenerations == 2
MaxTicks == 1

VARIABLES
    prompt,              \* useState: the prompt text
    selectedStyle,       \* useState: a style name
    selectedPalette,     \* useState: a palette name
    selectedResolution,  \* useState: an entry of resolutions
    isGenerating,        \* useState: the busy flag
    history,             \* useState: HistoryItem[], newest first
    rendered,            \* the values the handlers of the last render closed over
    task,                \* the handleGenerate call in flight, if any
    canvas,              \* the canvas element behind canvasRef
    now,                 \* Date.now()
    gens,                \* log: one entry per renderArt call that drew
    rngCalls,            \* log: next() calls made so far, over all instances
    outcome,             \* log: how the last finished handleGenerate call ended
    uuids,               \* crypto.randomUUID() calls so far
    clicks, edits, ticks, \* counters the bounds cap
    microtasks,          \* the continuations of handleGenerate calls not yet run
    rngInput, rng, acc, rngOut, accOut, rngCount,   \* an RNG instance on its own
    img, imgBefore, scanned                          \* drawScanlines on its own

appVars ==
    <<prompt, selectedStyle, selectedPalette, selectedResolution, isGenerating,
      history, rendered, task, canvas, now, gens, rngCalls, outcome, uuids,
      clicks, edits, ticks>>
rngVars == <<rngInput, rng, acc, rngOut, accOut, rngCount>>
scanVars == <<img, imgBefore, scanned>>
queueVars == <<microtasks>>
vars == <<appVars, rngVars, scanVars, queueVars>>

\* what a render makes the handlers close over; palette is the useMemo
Closure ==
    [prompt |-> prompt, selectedStyle |-> selectedStyle,
     selectedPalette |-> selectedPalette, selectedResolution |-> selectedResolution,
     isGenerating |-> isGenerating, palette |-> paletteOf(selectedPalette)]

NoTask ==
    [pc |-> "idle", acquire |-> "ok", result |-> <<>>, prompt |-> "", style |-> "",
     palette |-> ""]

\* The page is at rest: no handler is running and React has rendered the
\* latest state.  A user event is a task of its own: it is dispatched only
\* then (the microtasks of the previous one, the continuation of
\* handleGenerate and React's re-render, have run).
AtRest == task.pc = "idle" /\ rendered = Closure

InitApp ==
    /\ prompt = InitialPrompt
    /\ selectedStyle = styles[1]
    /\ selectedPalette = palettes[1].name
    /\ selectedResolution = resolutions[1]
    /\ isGenerating = FALSE
    /\ history = <<>>
    /\ rendered = [prompt |-> InitialPrompt, selectedStyle |-> styles[1],
                   selectedPalette |-> palettes[1].name,
                   selectedResolution |-> resolutions[1],
                   isGenerating |-> FALSE, palette |-> paletteOf(palettes[1].name)]
    /\ task = NoTask
    /\ canvas = [width |-> 300, height |-> 150, composite |-> "source-over", ops |-> <<>>]
    /\ now = [high |-> 1761811, low |-> 999999]
    /\ gens = <<>>
    /\ rngCalls = 0
    /\ outcome = "none"
    /\ uuids = 0
    /\ clicks = 0
    /\ edits = 0
    /\ ticks = 0
    /\ microtasks = <<>>

\* the RNG and scanline variables when no instance is being followed
InitRngIdle ==
    /\ rngInput = <<>>
    /\ rng = hash(<<>>)
    /\ acc = hashAcc(<<>>)
    /\ rngOut = <<>>
    /\ accOut = <<>>
    /\ rngCount = 0

InitScanIdle ==
    /\ img = [width |-> 0, height |-> 0, data |-> <<>>]
    /\ imgBefore = [width |-> 0, height |-> 0, data |-> <<>>]
    /\ scanned = FALSE

Init == InitApp /\ InitRngIdle /\ InitScanIdle

\* onChange of the textarea: setPrompt(event.target.value)
setPrompt(p) ==
    /\ edits < MaxEdits
    /\ p # prompt
    /\ prompt' = p
    /\ edits' = edits + 1
    /\ UNCHANGED <<selectedStyle, selectedPalette, selectedResolution, isGenerating,
                   history, rendered, task, canvas, now, gens, rngCalls, outcome,
                   uuids, clicks, ticks>>
    /\ UNCHANGED <<rngVars, scanVars, queueVars>>

\* the same, as an event of its own once the page is at rest
SetPrompt(p) == AtRest /\ setPrompt(p)

\* setSelectedStyle(style)
setSelectedStyle(style) ==
    /\ edits < MaxEdits
    /\ style # selectedStyle
    /\ selectedStyle' = style
    /\ edits' = edits + 1
    /\ UNCHANGED <<prompt, selectedPalette, selectedResolution, isGenerating,
                   history, rendered, task, canvas, now, gens, rngCalls, outcome,
                   uuids, clicks, ticks>>
    /\ UNCHANGED <<rngVars, scanVars, queueVars>>

\* the same, as an event of its own once the page is at rest
SetSelectedStyle(style) == AtRest /\ setSelectedStyle(style)

\* setSelectedPalette(option.name)
setSelectedPalette(name) ==
    /\ edits < MaxEdits
    /\ name # selectedPalette
    /\ selectedPalette' = name
    /\ edits' = edits + 1
    /\ UNCHANGED <<prompt, selectedStyle, selectedResolution, isGenerating,
                   history, rendered, task, canvas, now, gens, rngCalls, outcome,
                   uuids, clicks, ticks>>
    /\ UNCHANGED <<rngVars, scanVars, queueVars>>

\* the same, as an event of its own once the page is at rest
SetSelectedPalette(name) == AtRest /\ setSelectedPalette(name)

\* setSelectedResolution(res)
setSelectedResolution(res) ==
    /\ edits < MaxEdits
    /\ res # selectedResolution
    /\ selectedResolution' = res
    /\ edits' = edits + 1
    /\ UNCHANGED <<prompt, selectedStyle, selectedPalette, isGenerating,
                   history, rendered, task, canvas, now, gens, rngCalls, outcome,
                   uuids, clicks, ticks>>
    /\ UNCHANGED <<rngVars, scanVars, queueVars>>

\* the same, as an event of its own once the page is at rest
SetSelectedResolution(res) == AtRest /\ setSelectedResolution(res)

\* the Surprise Me button: a fixed prompt, and a style and a palette picked
\* with Math.random()
surpriseMe ==
    /\ edits < MaxEdits
    /\ \E i \in DOMAIN styles, j \in DOMAIN palettes :
          /\ prompt' = SurprisePrompt
          /\ selectedStyle' = styles[i]
          /\ selectedPalette' = palettes[j].name
    /\ edits' = edits + 1
    /\ UNCHANGED <<selectedResolution, isGenerating,
                   history, rendered, task, canvas, now, gens, rngCalls, outcome,
                   uuids, clicks, ticks>>
    /\ UNCHANGED <<rngVars, scanVars, queueVars>>

\* the same, as an event of its own once the page is at rest
SurpriseMe == AtRest /\ surpriseMe

\* React renders the latest state; the handlers are created anew
Render ==
    /\ rendered # Closure
    /\ rendered' = Closure
    /\ UNCHANGED <<prompt, selectedStyle, selectedPalette, selectedResolution,
                   isGenerating, history, task, canvas, now, gens, rngCalls, outcome,
                   uuids, clicks, edits, ticks>>
    /\ UNCHANGED <<rngVars, scanVars, queueVars>>

\* the clock moves on by a millisecond
Tick ==
    /\ ticks < MaxTicks
    /\ ticks' = ticks + 1
    /\ now' = IF now.low = 999999 THEN [high |-> now.high + 1, low |-> 0]
              ELSE [high |-> now.high, low |-> now.low + 1]
    /\ UNCHANGED <<prompt, selectedStyle, selectedPalette, selectedResolution,
                   isGenerating, history, rendered, task, canvas, gens, rngCalls,
                   outcome, uuids, clicks, edits>>
    /\ UNCHANGED <<rngVars, scanVars, queueVars>>

\* the log entry of a renderArt call that drew
GenEntry(view, t, prior, r) ==
    [prompt |-> view.prompt, style |-> view.selectedStyle,
     palette |-> view.selectedPalette, resolution |-> view.selectedResolution,
     seedTime |-> t, seedBase |-> r.seedBase, prior |-> prior,
     surface |-> r.surface, calls |-> r.calls]

(***************************************************************************)
(* handleGenerate up to its await, run by a click on Generate Artwork: the *)
(* guard on the closed-over isGenerating, setIsGenerating(true), and the   *)
(* whole of renderArt, which has no await of its own.                      *)
(***************************************************************************)
handleGenerate(acquire) ==
    /\ AtRest
    /\ clicks < MaxGenerations
    /\ clicks' = clicks + 1
    /\ IF rendered.isGenerating
       THEN UNCHANGED <<isGenerating, task, canvas, gens, rngCalls>>
       ELSE \E r \in {renderArt(rendered, canvas, now, acquire)} :
                /\ isGenerating' = TRUE
                /\ canvas' = r.surface
                /\ rngCalls' = rngCalls + r.calls
                /\ gens' = IF r.result = <<>> THEN gens
                           ELSE Append(gens, GenEntry(rendered, now, canvas, r))
                /\ task' = [pc |-> "awaiting", acquire |-> acquire,
                            result |-> r.result,
                            prompt |-> rendered.prompt,
                            style |-> rendered.selectedStyle,
                            palette |-> rendered.selectedPalette]
    /\ UNCHANGED <<prompt, selectedStyle, selectedPalette, selectedResolution,
                   history, rendered, now, outcome, uuids, edits, ticks>>
    /\ UNCHANGED <<rngVars, scanVars, queueVars>>

\* the record handleGenerate passes to setHistory
historyItem(id, dataUrl, t) ==
    [id |-> id, dataUrl |-> dataUrl, prompt |-> task.prompt, style |-> task.style,
     palette |-> task.palette, timestamp |-> t]

\* a variant of the update below that puts the record at the end
addToHistoryEnd(prev, item) == prev \o <<item>>

\* setHistory((prev) => [item, ...prev])
addToHistory(prev, item) == <<item>> \o prev

\* a variant of the exit below for setIsGenerating(false) placed after
\* setHistory and not in a finally: the early return leaves the flag set
finallyIsGeneratingOnSuccess(result) == result = <<>>

\* what handleGenerate does to isGenerating on its way out (finally)
finallyIsGenerating(result) == FALSE

(***************************************************************************)
(* handleGenerate after its await (a microtask of the same click): return  *)
(* on a null dataUrl, else setHistory; finally setIsGenerating(false).     *)
(***************************************************************************)
handleGenerateResume ==
    /\ task.pc = "awaiting"
    /\ IF task.result = <<>>
       THEN /\ outcome' = "absent"
            /\ UNCHANGED <<history, uuids>>
       ELSE /\ history' = addToHistory(history, historyItem(uuids + 1, task.result[1], now))
            /\ uuids' = uuids + 1
            /\ outcome' = "stored"
    /\ isGenerating' = finallyIsGenerating(task.result)
    /\ task' = NoTask
    /\ UNCHANGED <<prompt, selectedStyle, selectedPalette, selectedResolution,
                   rendered, canvas, now, gens, rngCalls, clicks, edits, ticks>>
    /\ UNCHANGED <<rngVars, scanVars, queueVars>>

PageNext(styleNames, paletteNames) ==
    \/ \E p \in TypedPrompts : SetPrompt(p)
    \/ \E s \in styleNames : SetSelectedStyle(s)
    \/ \E n \in paletteNames : SetSelectedPalette(n)
    \/ \E r \in Range(resolutions) : SetSelectedResolution(r)
    \/ SurpriseMe
    \/ Render
    \/ Tick
    \/ \E a \in Acquire : handleGenerate(a)
    \/ handleGenerateResume

\* the page as its controls drive it: every name comes from the tables
Next == PageNext(StyleNames, PaletteNames)

Spec == Init /\ [][Next]_vars

\* ---- the page with its events dispatched at any moment ----------------

(***************************************************************************)
(* An event handler is the one the last render created, and React may put  *)
(* the re-render after a state update off to a microtask: an event         *)
(* dispatched before it (a second click() in the same task) runs the       *)
(* handlers of the old render.  Here every event may come at any moment;   *)
(* the continuations of the handleGenerate calls wait in microtasks and    *)
(* run in the order of their calls.                                        *)
(***************************************************************************)

\* what the continuation of a handleGenerate call holds: the awaited
\* dataUrl and the prompt, selectedStyle and selectedPalette it closed over
Continuation(acquire, result, view) ==
    [acquire |-> acquire, result |-> result, prompt |-> view.prompt,
     style |-> view.selectedStyle, palette |-> view.selectedPalette]

\* handleGenerate up to its await, called through the handler of the last
\* render: the guard reads that render's isGenerating
handleGenerateCall(acquire) ==
    /\ clicks < MaxGenerations
    /\ clicks' = clicks + 1
    /\ IF rendered.isGenerating
       THEN UNCHANGED <<isGenerating, canvas, gens, rngCalls, microtasks>>
       ELSE \E r \in {renderArt(rendered, canvas, now, acquire)} :
                /\ isGenerating' = TRUE
                /\ canvas' = r.surface
                /\ rngCalls' = rngCalls + r.calls
                /\ gens' = IF r.result = <<>> THEN gens
                           ELSE Append(gens, GenEntry(rendered, now, canvas, r))
                /\ microtasks' = Append(microtasks,
                                        Continuation(acquire, r.result, rendered))
    /\ UNCHANGED <<prompt, selectedStyle, selectedPalette, selectedResolution,
                   history, rendered, task, now, outcome, uuids, edits, ticks>>
    /\ UNCHANGED <<rngVars, scanVars>>

\* the record a continuation passes to setHistory
historyItemOf(k, id, t) ==
    [id |-> id, dataUrl |-> k.result[1], prompt |-> k.prompt, style |-> k.style,
     palette |-> k.palette, timestamp |-> t]

\* handleGenerate after its await, for the oldest call waiting
handleGenerateContinue ==
    /\ microtasks # <<>>
    /\ IF Head(microtasks).result = <<>>
       THEN /\ outcome' = "absent"
            /\ UNCHANGED <<history, uuids>>
       ELSE /\ history' = addToHistory(history,
                                       historyItemOf(Head(microtasks), uuids + 1, now))
            /\ uuids' = uuids + 1
            /\ outcome' = "stored"
    /\ isGenerating' = finallyIsGenerating(Head(microtasks).result)
    /\ microtasks' = Tail(microtasks)
    /\ UNCHANGED <<prompt, selectedStyle, selectedPalette, selectedResolution,
                   rendered, task, canvas, now, gens, rngCalls, clicks, edits, ticks>>
    /\ UNCHANGED <<rngVars, scanVars>>

NextInterleaved ==
    \/ \E p \in TypedPrompts : setPrompt(p)
    \/ \E s \in StyleNames : setSelectedStyle(s)
    \/ \E n \in PaletteNames : setSelectedPalette(n)
    \/ \E r \in Range(resolutions) : setSelectedResolution(r)
    \/ surpriseMe
    \/ Render
    \/ Tick
    \/ \E a \in Acquire : handleGenerateCall(a)
    \/ handleGenerateContinue

SpecInterleaved == Init /\ [][NextInterleaved]_vars

\* ---- an RNG instance on its own ---------------------------------------

\* bounds: the length of the generated seed strings, the calls followed
MaxSeedLen == 2
MaxCalls == 5

\* the characters of the generated seed strings: "-", "0", "a", "y"
SeedChars == {45, 48, 97, 121}

RECURSIVE StringsOf(_)
\* the strings of length n over SeedChars
StringsOf(n) ==
    IF n = 0 THEN {<<>>}
    ELSE {Append(str, c) : str \in StringsOf(n - 1), c \in SeedChars}

\* "reaz" and "oyy0": strings whose hash is so close to 2^32 that the
\* stored fraction rounds up into the integer part within two calls
RoundingSeeds == {<<114, 101, 97, 122>>, <<111, 121, 121, 48>>}

\* seed strings as renderArt builds them, one millisecond apart
RenderSeeds ==
    {seedBase(InitialPrompt, styles[1], palettes[1].name, t) :
        t \in {[high |-> 1761811, low |-> 999999], [high |-> 1761812, low |-> 0]}}

SeedStrings ==
    UNION {StringsOf(n) : n \in 0..MaxSeedLen} \cup RoundingSeeds \cup RenderSeeds

\* The generator that stores the unsigned 32-bit accumulator of the hash
\* and adds the increment modulo 2^32: one call, the new state and the
\* returned value as a word
accNext(state) ==
    Bind(AddW(state, Increment), LAMBDA t : [state |-> t, value |-> Mix(t)])

\* new RNG(seedString), with the accumulator generator started beside it
NewRNG ==
    /\ rngInput \in SeedStrings
    /\ rng = hash(rngInput)
    /\ acc = hashAcc(rngInput)
    /\ rngOut = <<>>
    /\ accOut = <<>>
    /\ rngCount = 0

\* one call of next() on the instance, and one on the accumulator generator
RngNext ==
    /\ rngCount < MaxCalls
    /\ rngCount' = rngCount + 1
    /\ \E r \in {next(rng)} :
          /\ rng' = r.seed
          /\ rngOut' = Append(rngOut, r.value)
    /\ \E a \in {accNext(acc)} :
          /\ acc' = a.state
          /\ accOut' = Append(accOut, a.value)
    /\ UNCHANGED rngInput
    /\ UNCHANGED <<appVars, scanVars, queueVars>>

NextRNG == RngNext

InitRNG == InitApp /\ NewRNG /\ InitScanIdle

SpecRNG == InitRNG /\ [][NextRNG]_vars

\* ---- drawScanlines on its pixels --------------------------------------

\* bounds: the size of the images
MaxWidth == 2
MaxHeight == 3

\* data[idx] *= 0.95 on a Uint8ClampedArray: the product v * 0.95 of
\* doubles, converted back by rounding to the nearest integer, ties to
\* even, and clamping to 0..255.  For v in 0..255 the double product rounds
\* as the exact 19 * v / 20 does (it is exactly x.5 when v = 10 mod 20).
scale95(v) ==
    LET q == (19 * v) \div 20
        r == (19 * v) % 20
        n == IF r < 10 THEN q
             ELSE IF r > 10 THEN q + 1
             ELSE IF q % 2 = 0 THEN q ELSE q + 1
    IN  IF n > 255 THEN 255 ELSE n

\* the row and the channel (0 red, 1 green, 2 blue, 3 alpha) of the
\* 1-based position i of ImageData.data
RowOf(image, i) == (i - 1) \div (image.width * 4)
ChannelOf(i) == (i - 1) % 4

\* a variant of the loop below without its test y % 2 === 0
drawScanlinesEveryRow(image, height) ==
    [image EXCEPT !.data =
        [i \in DOMAIN image.data |->
            IF RowOf(image, i) < height /\ ChannelOf(i) # 3
            THEN scale95(image.data[i]) ELSE image.data[i]]]

\* drawScanlines(ctx, height) on the ImageData of the whole canvas: in
\* the rows y < height with y even, the red, green and blue value of every
\* pixel is scaled; a position outside the data is not written
drawScanlines(image, height) ==
    [image EXCEPT !.data =
        [i \in DOMAIN image.data |->
            IF RowOf(image, i) < height /\ RowOf(image, i) % 2 = 0 /\ ChannelOf(i) # 3
            THEN scale95(image.data[i]) ELSE image.data[i]]]

\* an image of the given size whose channel values alternate between v
\* and 255 - v
Image(width, height, v) ==
    [width |-> width, height |-> height,
     data |-> [i \in 1..(width * height * 4) |-> IF i % 2 = 1 THEN v ELSE 255 - v]]

NewImage ==
    /\ img \in {Image(w, h, v) : w \in 1..MaxWidth, h \in 1..MaxHeight, v \in 0..255}
    /\ imgBefore = img
    /\ scanned = FALSE

\* renderArt's call drawScanlines(ctx, height) with the canvas height
ScanStep ==
    /\ ~scanned
    /\ scanned' = TRUE
    /\ img' = drawScanlines(img, img.height)
    /\ UNCHANGED imgBefore
    /\ UNCHANGED <<appVars, rngVars, queueVars>>

NextScanline == ScanStep

InitScanline == InitApp /\ InitRngIdle /\ NewImage

SpecScanline == InitScanline /\ [][NextScanline]_vars

\* ---- properties --------------------------------------------------------

\* the layers of the operations on the surface a generation finished, in order
LayersOf(g) == [k \in DOMAIN g.surface.ops |-> g.surface.ops[k].layer]

\* the operations of a generation that are not Scanline, in order
Consuming(op) == op.layer # "Scanline"
DrawnOf(g) == SelectSeq(g.surface.ops, Consuming)

\* the generations whose handleGenerate call has reached setHistory
StoredCount ==
    Len(gens) - (IF task.pc = "awaiting" /\ task.result # <<>> THEN 1 ELSE 0)

\* the history record of the k-th generation that drew (history is newest
\* first)
RecordOf(k) == history[StoredCount - k + 1]

\* C2: every generation applies Scanline exactly once, as the last
\* operation on the surface; for "Synthwave Horizon" it comes immediately
\* after Fluid.
C2_ScanlineOnce ==
    \A i \in DOMAIN gens :
        LET L == LayersOf(gens[i])
        IN  /\ Cardinality({k \in DOMAIN L : L[k] = "Scanline"}) = 1
            /\ L[Len(L)] = "Scanline"
            /\ gens[i].style = "Synthwave Horizon" =>
                  Len(L) >= 2 /\ L[Len(L) - 1] = "Fluid"

\* a "Synthwave Horizon" generation whose operations end Fluid, Scanline
C2_Witness ==
    \E i \in DOMAIN gens :
        /\ gens[i].style = "Synthwave Horizon"
        /\ LayersOf(gens[i]) = <<"Backdrop", "Fluid", "Scanline">>

\* the order of the consuming layers C3 states for a style
C3_Order(style) ==
    CASE style = "Polygon Nebula" -> <<"Backdrop", "Polygon", "Particle">>
      [] style = "Fractal Bloom" -> <<"Backdrop", "Fluid", "Particle">>
      [] style = "Chromatic Storm" -> <<"Backdrop", "Polygon", "Fluid", "Particle">>
      [] style = "Synthwave Horizon" -> <<"Backdrop", "Fluid">>
      [] style = "Liquid Aurora" -> <<"Backdrop", "Fluid", "Particle">>
      [] OTHER -> <<"Backdrop", "Fluid", "Polygon", "Particle">>

\* C3: in every generation the layers consume one RNG instance, made from
\* that generation's seed string, in the order fixed by the style: Backdrop
\* takes the first calls of the instance, every later layer continues
\* where the one before it stopped, and Scanline makes no call.
C3_FixedConsumptionOrder ==
    \A i \in DOMAIN gens :
        LET g == gens[i]
            drawn == DrawnOf(g)
        IN  /\ [k \in DOMAIN drawn |-> drawn[k].layer] = C3_Order(g.style)
            /\ drawn[1].from = 0
            /\ drawn[1].first = <<ToInt32(SeedAdd(hash(g.seedBase)))>>
            /\ \A k \in DOMAIN drawn : drawn[k].calls > 0
            /\ \A k \in 1..(Len(drawn) - 1) :
                  /\ drawn[k + 1].from = drawn[k].from + drawn[k].calls
                  /\ drawn[k + 1].first = <<AddW(drawn[k].last[1], Increment)>>
            /\ g.calls = drawn[Len(drawn)].from + drawn[Len(drawn)].calls
            /\ \A k \in DOMAIN g.surface.ops :
                  g.surface.ops[k].layer = "Scanline" =>
                      g.surface.ops[k].calls = 0 /\ g.surface.ops[k].from = g.calls

\* a "Chromatic Storm" generation: Polygon from call 24 on, then Fluid,
\* then the 2400 calls of Particle
C3_Witness ==
    \E i \in DOMAIN gens :
        /\ gens[i].style = "Chromatic Storm"
        /\ Len(gens[i].surface.ops) = 5
        /\ gens[i].surface.ops[2].from = 24
        /\ gens[i].surface.ops[4].calls = 2400

\* C4: generations with the same seed string, style, palette and resolution
\* finish with the same surface, whatever the canvas held before.
C4_SurfaceFunctionOfRequest ==
    \A i, j \in DOMAIN gens :
        (/\ gens[i].seedBase = gens[j].seedBase
         /\ gens[i].style = gens[j].style
         /\ gens[i].palette = gens[j].palette
         /\ gens[i].resolution = gens[j].resolution)
        => gens[i].surface = gens[j].surface

\* two generations of one request, the second on a canvas of another size
\* that the first has drawn on
C4_Witness ==
    \E i, j \in DOMAIN gens :
        /\ gens[i].seedBase = gens[j].seedBase
        /\ gens[i].resolution = gens[j].resolution
        /\ gens[i].prior.ops = <<>>
        /\ gens[j].prior.ops # <<>>
        /\ gens[i].prior.width # gens[j].prior.width

\* C5: after drawScanlines every value is in 0..255, every red, green and
\* blue value of an even row is at most what it was, and every alpha value
\* and every value of an odd row is what it was.
C5_ScanlineMonotone ==
    scanned =>
        /\ img.width = imgBefore.width /\ img.height = imgBefore.height
        /\ DOMAIN img.data = DOMAIN imgBefore.data
        /\ \A i \in DOMAIN img.data :
              /\ img.data[i] \in 0..255
              /\ ChannelOf(i) = 3 => img.data[i] = imgBefore.data[i]
              /\ RowOf(img, i) % 2 = 1 => img.data[i] = imgBefore.data[i]
              /\ (RowOf(img, i) % 2 = 0 /\ ChannelOf(i) # 3) =>
                    img.data[i] <= imgBefore.data[i]

\* an image of several rows after drawScanlines, a 255 of an even row
\* now 242
C5_Witness ==
    /\ scanned
    /\ img.height >= 2
    /\ \E i \in DOMAIN img.data :
          /\ RowOf(img, i) % 2 = 0
          /\ imgBefore.data[i] = 255
          /\ img.data[i] = 242

\* C6: a handleGenerate call that cannot acquire the canvas or its 2D
\* context gets the absent result with nothing drawn and no random value
\* consumed, and ends with the history as it was and isGenerating false.
C6_UnavailableSurfaceAborts ==
    [][/\ (task.pc = "idle" /\ task'.pc = "awaiting" /\ task'.acquire # "ok") =>
             /\ task'.result = <<>>
             /\ canvas' = canvas
             /\ rngCalls' = rngCalls
             /\ gens' = gens
             /\ history' = history
       /\ (task.pc = "awaiting" /\ task.acquire # "ok" /\ task'.pc = "idle") =>
             /\ outcome' = "absent"
             /\ canvas' = canvas
             /\ rngCalls' = rngCalls
             /\ history' = history
             /\ isGenerating' = FALSE]_vars

\* a generation that ended absent after one that was stored
C6_Witness ==
    /\ outcome = "absent"
    /\ task.pc = "idle"
    /\ Len(history) = 1
    /\ ~isGenerating

\* C7: the history holds one record per completed generation, newest
\* first; each record carries the prompt, style and palette its seed
\* string was built from and the encoding of the surface as renderArt
\* finished it.
C7_RecordPerGeneration ==
    /\ Len(history) = StoredCount
    /\ \A k \in 1..StoredCount :
          LET g == gens[k]
              rec == RecordOf(k)
          IN  /\ rec.id = k
              /\ rec.prompt = g.prompt
              /\ rec.style = g.style
              /\ rec.palette = g.palette
              /\ g.seedBase = seedBase(rec.prompt, rec.style, rec.palette, g.seedTime)
              /\ rec.dataUrl = toDataURL(g.surface)
              /\ rec.dataUrl.ops[Len(rec.dataUrl.ops)].layer = "Scanline"

\* two records, the style changed between their generations
C7_Witness ==
    /\ Len(history) = 2
    /\ history[1].style # history[2].style
    /\ history[1].id = 2

\* C8 as the specification states it: the values next() returns are those
\* of the generator that keeps the 32-bit accumulator and wraps around.
C8_AccumulatorEquivalent == rngOut = accOut

\* C9 as the specification states it: generations that differ only in the
\* wall-clock value of their seed string finish with different surfaces.
C9_ClockMakesOutputUnique ==
    \A i, j \in DOMAIN gens :
        (/\ gens[i].prompt = gens[j].prompt
         /\ gens[i].style = gens[j].style
         /\ gens[i].palette = gens[j].palette
         /\ gens[i].resolution = gens[j].resolution
         /\ gens[i].seedTime # gens[j].seedTime)
        => gens[i].surface # gens[j].surface

\* C10 as the specification states it: the stored state of an RNG instance
\* is an integer in [0, 2^32).
C10_StateIsUint32 == rng.frac = <<0, 0>> /\ rng.int[1] < W16

\* C11 as the specification states it: a step that draws is one whole
\* generation, from the resize of the surface to the encoding its
\* continuation will store, and a Generate request handled while
\* isGenerating is true draws nothing, consumes nothing and queues no
\* history record.
C11_GenerationsSerialized ==
    [][/\ canvas' # canvas =>
             /\ Len(gens') = Len(gens) + 1
             /\ canvas' = gens'[Len(gens')].surface
             /\ Len(microtasks') = Len(microtasks) + 1
             /\ microtasks'[Len(microtasks')].result = <<toDataURL(canvas')>>
       /\ (clicks' = clicks + 1 /\ isGenerating) =>
             /\ canvas' = canvas
             /\ gens' = gens
             /\ rngCalls' = rngCalls
             /\ microtasks' = microtasks
             /\ history' = history]_vars

====
